---- MODULE Spec2Model ----
(***************************************************************************)
(* Model of the Tencent translation command-line tool (src/src/main.rs).   *)
(*                                                                         *)
(* A string is a sequence of Unicode code points (naturals).  SHA-256 and  *)
(* HMAC-SHA256 are modelled as collision-free term constructors whose      *)
(* output is again a sequence of integers: negative integers bracket the   *)
(* arguments, so two digests are equal exactly when their inputs are.      *)
(***************************************************************************)
EXTENDS Integers, Sequences, FiniteSets, TLC

VARIABLES
    args,               \* env::args(): sequence of strings
    envId, envKey,      \* process environment: <<"unset"|"notunicode"|"set", value>>
    pc,                 \* position of main
    result,             \* "none" while running, then "Ok" | "Err" | "Panic"
    err,                \* the message of the returned error or of the panic
    out,                \* standard output: sequence of <<kind, text, json>>
    envReads,           \* number of env::var calls made
    secret_id, secret_key,
    language_to,        \* "" | "en" | "zh"
    payload,            \* <<SourceText, Source, Target, ProjectId>>, <<>> before line 107
    clockReads,         \* number of SystemTime::now() calls made
    timestamp, date,
    canonical_request, credential_scope, string_to_sign,
    secret_date, secret_service, secret_signing,
    signature,          \* hex::encode(signature) of line 175
    authorization,
    requests,           \* number of HTTPS POSTs issued
    request,            \* the request built: <<headers, body, url>>, <<>> before
    body,               \* the response body received: <<"json"|"garbage", json>>
    res,                \* the parsed response
    prev                \* signing inputs and outputs of the previous invocation

vars == <<args, envId, envKey, pc, result, err, out, envReads, secret_id, secret_key,
          language_to, payload, clockReads, timestamp, date, canonical_request,
          credential_scope, string_to_sign, secret_date, secret_service,
          secret_signing, signature, authorization, requests, request, body, res, prev>>

-----------------------------------------------------------------------------
(* Bounds of the model *)

MaxLen == 1          \* longest text argument of the full pipeline
MaxTextLen == 3      \* longest text argument of the classifier specification

-----------------------------------------------------------------------------
(* String literals of the program, as code points *)

S_POST == <<80, 79, 83, 84>>
S_slash == <<47>>
S_empty == <<>>
S_service == <<116, 109, 116>>
S_host == <<116, 109, 116, 46, 116, 101, 110, 99, 101, 110, 116, 99, 108, 111, 117,
            100, 97, 112, 105, 46, 99, 111, 109>>
S_region == <<97, 112, 45, 103, 117, 97, 110, 103, 122, 104, 111, 117>>
S_version == <<50, 48, 49, 56, 45, 48, 51, 45, 50, 49>>
S_action == <<84, 101, 120, 116, 84, 114, 97, 110, 115, 108, 97, 116, 101>>
S_endpoint == <<104, 116, 116, 112, 115, 58, 47, 47, 116, 109, 116, 46, 116, 101, 110,
                99, 101, 110, 116, 99, 108, 111, 117, 100, 97, 112, 105, 46, 99, 111, 109>>
S_algorithm == <<84, 67, 51, 45, 72, 77, 65, 67, 45, 83, 72, 65, 50, 53, 54>>
S_ct == <<97, 112, 112, 108, 105, 99, 97, 116, 105, 111, 110, 47, 106, 115, 111, 110,
          59, 32, 99, 104, 97, 114, 115, 101, 116, 61, 117, 116, 102, 45, 56>>
S_signed_headers == <<99, 111, 110, 116, 101, 110, 116, 45, 116, 121, 112, 101, 59,
                      104, 111, 115, 116, 59, 120, 45, 116, 99, 45, 97, 99, 116, 105,
                      111, 110>>
S_tc3_request == <<116, 99, 51, 95, 114, 101, 113, 117, 101, 115, 116>>
S_TC3 == <<84, 67, 51>>
S_auto == <<97, 117, 116, 111>>
S_en == <<101, 110>>
S_zh == <<122, 104>>
NL == <<10>>

-----------------------------------------------------------------------------
(* Language classifier *)

\* char::is_ascii
is_ascii(ch) == ch <= 127

\* is_chinese with only the first range kept
is_chinese_basic(ch) == 19968 <= ch /\ ch <= 40959

is_chinese(ch) ==
    \/ 19968 <= ch /\ ch <= 40959        \* 4E00..9FFF
    \/ 13312 <= ch /\ ch <= 19903        \* 3400..4DBF
    \/ 131072 <= ch /\ ch <= 173791      \* 20000..2A6DF
    \/ 173824 <= ch /\ ch <= 177983      \* 2A700..2B73F
    \/ 177984 <= ch /\ ch <= 178207      \* 2B740..2B81F
    \/ 178208 <= ch /\ ch <= 183983      \* 2B820..2CEAF
    \/ 63744 <= ch /\ ch <= 64255        \* F900..FAFF
    \/ 194560 <= ch /\ ch <= 195103      \* 2F800..2FA1F

RECURSIVE count_from(_, _, _, _)
\* the loop of count_languages from character i on, with the two counters so far
count_from(text, i, chinese_count, english_count) ==
    IF i > Len(text) THEN <<chinese_count, english_count>>
    ELSE IF is_ascii(text[i]) THEN count_from(text, i + 1, chinese_count, english_count + 1)
    ELSE IF is_chinese(text[i]) THEN count_from(text, i + 1, chinese_count + 1, english_count)
    ELSE count_from(text, i + 1, chinese_count, english_count)

count_languages(text) == count_from(text, 1, 0, 0)

\* the choice of lines 95-100 with >= in place of >
choose_target_ge(text) ==
    LET c == count_languages(text)
    IN  IF c[1] >= c[2] THEN "en" ELSE "zh"

\* lines 95-100
choose_target(text) ==
    LET c == count_languages(text)
    IN  IF c[1] > c[2] THEN "en" ELSE "zh"

-----------------------------------------------------------------------------
(* Hashing and encoding *)

\* ring::digest::digest(&SHA256, m)
Sha256(m) == <<-1>> \o m \o <<-2>>

\* ring::hmac::sign(&Key::new(HMAC_SHA256, key), msg)
Hmac(key, msg) == <<-3>> \o key \o <<-4>> \o msg \o <<-5>>

\* hex::encode
Hex(d) == <<-6>> \o d \o <<-7>>

\* fn sign, lines 38-41
sign(key, msg) == Hmac(key, msg)

RECURSIVE Dec(_)
\* u64::to_string and "{}" of a u64: decimal digits, no padding
Dec(n) == IF n < 10 THEN <<48 + n>> ELSE Dec(n \div 10) \o <<48 + (n % 10)>>

RECURSIVE Pad(_, _)
\* a number zero-padded to w digits, as %Y, %m and %d print it
Pad(n, w) == IF w = 0 THEN <<>> ELSE Pad(n \div 10, w - 1) \o <<48 + (n % 10)>>

\* str::to_lowercase on one character (ASCII letters are all the program lowers)
lower(ch) == IF 65 <= ch /\ ch <= 90 THEN ch + 32 ELSE ch

to_lowercase(s) == [i \in 1..Len(s) |-> lower(s[i])]

\* the UTC calendar date <<year, month, day>> of a Unix time in seconds
civil(secs) ==
    LET z == (secs \div 86400) + 719468
        era == z \div 146097
        doe == z - era * 146097
        yoe == (doe - doe \div 1460 + doe \div 36524 - doe \div 146096) \div 365
        doy == doe - (365 * yoe + yoe \div 4 - yoe \div 100)
        mp == (5 * doy + 2) \div 153
        d == doy - (153 * mp + 2) \div 5 + 1
        m == IF mp < 10 THEN mp + 3 ELSE mp - 9
        y == yoe + era * 400 + (IF m <= 2 THEN 1 ELSE 0)
    IN  <<y, m, d>>

\* DateTime::from_timestamp(t, 0).unwrap().format("%Y-%m-%d").to_string()
format_date(secs) ==
    LET c == civil(secs)
    IN  Pad(c[1], 4) \o <<45>> \o Pad(c[2], 2) \o <<45>> \o Pad(c[3], 2)

-----------------------------------------------------------------------------
(* JSON *)

hexdigit(d) == IF d < 10 THEN 48 + d ELSE 87 + d

\* serde_json's escape of one character of a string
escape(ch) ==
    IF ch = 34 THEN <<92, 34>>
    ELSE IF ch = 92 THEN <<92, 92>>
    ELSE IF ch = 8 THEN <<92, 98>>
    ELSE IF ch = 9 THEN <<92, 116>>
    ELSE IF ch = 10 THEN <<92, 110>>
    ELSE IF ch = 12 THEN <<92, 102>>
    ELSE IF ch = 13 THEN <<92, 114>>
    ELSE IF ch < 32 THEN <<92, 117, 48, 48, hexdigit(ch \div 16), hexdigit(ch % 16)>>
    ELSE <<ch>>

RECURSIVE escape_str(_)
escape_str(s) == IF s = <<>> THEN <<>> ELSE escape(Head(s)) \o escape_str(Tail(s))

quoted(s) == <<34>> \o escape_str(s) \o <<34>>

\* json!({...}) of lines 107-112: <<SourceText, Source, Target, ProjectId>>
make_payload(text, target) == <<text, S_auto, IF target = "en" THEN S_en ELSE S_zh, 0>>

\* payload.to_string() and the body written by .json(&payload): serde_json's
\* compact form, keys in the order of its map (sorted)
to_string(p) ==
    <<123>> \o quoted(<<80, 114, 111, 106, 101, 99, 116, 73, 100>>) \o <<58>> \o Dec(p[4])
    \o <<44>> \o quoted(<<83, 111, 117, 114, 99, 101>>) \o <<58>> \o quoted(p[2])
    \o <<44>> \o quoted(<<83, 111, 117, 114, 99, 101, 84, 101, 120, 116>>) \o <<58>> \o quoted(p[1])
    \o <<44>> \o quoted(<<84, 97, 114, 103, 101, 116>>) \o <<58>> \o quoted(p[3])
    \o <<125>>

\* serde_json::Value: <<tag, text, members>>, members a sequence of <<key, value>>
JNull == <<"null", <<>>, <<>>>>
JStr(s) == <<"str", s, <<>>>>
JNum(s) == <<"num", s, <<>>>>
JObj(members) == <<"obj", <<>>, members>>

\* Index<&str> for Value: Null when v is no object or has no such key
Index(v, key) ==
    IF v[1] = "obj" /\ \E i \in 1..Len(v[3]) : v[3][i][1] = key
    THEN v[3][CHOOSE i \in 1..Len(v[3]) : v[3][i][1] = key][2]
    ELSE JNull

\* as_str that also accepts a number
as_str_lenient(v) == IF v[1] \in {"str", "num"} THEN <<TRUE, v[2]>> ELSE <<FALSE, <<>>>>

\* Value::as_str: <<TRUE, s>> for Some(s), <<FALSE, <<>>>> for None
as_str(v) == IF v[1] = "str" THEN <<TRUE, v[2]>> ELSE <<FALSE, <<>>>>

-----------------------------------------------------------------------------
(* HTTP headers *)

\* HeaderValue::from_str accepts a byte when it is a tab or is at least 32 and
\* not 127 (the bytes of a non-ASCII character are all above 127)
valid_header_byte(b) == (b >= 32 /\ b # 127) \/ b = 9

\* position i of s lies inside a hex digest, whose characters are hex digits
in_hex(s, i) ==
    Cardinality({j \in 1..i : s[j] = -6}) > Cardinality({j \in 1..i : s[j] = -7})

\* v.parse::<HeaderValue>() succeeds
valid_header_value(s) ==
    \A i \in 1..Len(s) : s[i] = -7 \/ in_hex(s, i) \/ valid_header_byte(s[i])

\* the headers with a timestamp taken one second after the signed one
make_headers_reread(auth, ts) ==
    ("Authorization" :> auth) @@ ("Content-Type" :> S_ct) @@ ("Host" :> S_host)
    @@ ("X-TC-Action" :> S_action) @@ ("X-TC-Timestamp" :> Dec(ts + 1))
    @@ ("X-TC-Version" :> S_version) @@ ("X-TC-Region" :> S_region)

\* the HashMap of lines 180-188
make_headers(auth, ts) ==
    ("Authorization" :> auth) @@ ("Content-Type" :> S_ct) @@ ("Host" :> S_host)
    @@ ("X-TC-Action" :> S_action) @@ ("X-TC-Timestamp" :> Dec(ts))
    @@ ("X-TC-Version" :> S_version) @@ ("X-TC-Region" :> S_region)

-----------------------------------------------------------------------------
(* Inputs *)

Chars == {65, 20013, 34}                 \* 'A', a CJK ideograph, '"'

\* both ends of every range of is_chinese, their outer neighbours, and ASCII
ClassChars ==
    {65, 127, 128,
     13311, 13312, 19903, 19904, 19967, 19968, 40959, 40960,
     63743, 63744, 64255, 64256,
     131071, 131072, 173791, 173792, 173823, 173824, 177983, 177984,
     178207, 178208, 183983, 183984,
     194559, 194560, 195103, 195104}

StringsOver(alphabet, n) == UNION {[1..k -> alphabet] : k \in 0..n}

Texts == StringsOver(Chars, MaxLen)
ClassTexts == StringsOver(ClassChars, MaxTextLen)

Prog == <<116, 116>>

Argvs(texts) ==
    {<<>>, <<Prog>>} \cup {<<Prog, t>> : t \in texts} \cup {<<Prog, t, <<120>>>> : t \in texts}

Unset == <<"unset", <<>>>>
NotUnicode == <<"notunicode", <<>>>>
EnvIds == {Unset, NotUnicode, <<"set", <<65, 75, 73, 68>>>>, <<"set", <<65, 10, 66>>>>}
EnvKeys == {Unset, <<"set", <<107, 49>>>>, <<"set", <<107, 50>>>>}

\* SystemTime::now().duration_since(UNIX_EPOCH): seconds, or an error when the
\* clock is set before the epoch
Timestamps == {86399, 86400, 951782400}
ClockResults == {<<"ok", t>> : t \in Timestamps} \cup {<<"before_epoch", 0>>}

S_hello == <<104, 101, 108, 108, 111>>
Response(v) == JObj(<< <<"Response", v>> >>)
Bodies ==
    {<<"garbage", JNull>>,
     <<"json", Response(JObj(<< <<"TargetText", JStr(S_hello)>>, <<"Source", JStr(S_zh)>> >>))>>,
     <<"json", Response(JObj(<< <<"TargetText", JStr(<<20320, 22909>>)>> >>))>>,
     <<"json", Response(JObj(<< <<"Error", JObj(<< <<"Code", JStr(<<65, 117, 116, 104>>)>> >>)>> >>))>>,
     <<"json", Response(JObj(<< <<"TargetText", JNum(<<52, 50>>)>> >>))>>,
     <<"json", Response(JObj(<< <<"TargetText", JNull>> >>))>>,
     <<"json", Response(JStr(S_hello))>>,
     <<"json", JObj(<< <<"TargetText", JStr(S_hello)>> >>)>>,
     <<"json", JObj(<<>>)>>,
     <<"json", JStr(S_hello)>>,
     <<"json", JNull>>}

-----------------------------------------------------------------------------
(* Initial states *)

Fresh ==
    /\ pc = "start" /\ result = "none" /\ err = "" /\ out = <<>>
    /\ envReads = 0 /\ secret_id = <<>> /\ secret_key = <<>>
    /\ language_to = "" /\ payload = <<>>
    /\ clockReads = 0 /\ timestamp = 0 /\ date = <<>>
    /\ canonical_request = <<>> /\ credential_scope = <<>> /\ string_to_sign = <<>>
    /\ secret_date = <<>> /\ secret_service = <<>> /\ secret_signing = <<>>
    /\ signature = <<>> /\ authorization = <<>>
    /\ requests = 0 /\ request = <<>> /\ body = <<>> /\ res = JNull

Init ==
    /\ args \in Argvs(Texts) /\ envId \in EnvIds /\ envKey \in EnvKeys
    /\ Fresh /\ prev = <<>>

InitClassify ==
    /\ args \in {<<Prog, t>> : t \in ClassTexts}
    /\ envId = <<"set", <<65, 75, 73, 68>>>> /\ envKey = <<"set", <<107, 49>>>>
    /\ Fresh /\ prev = <<>>

-----------------------------------------------------------------------------
(* main *)

inputVars == <<args, envId, envKey, prev>>
envVars == <<envReads, secret_id, secret_key>>
classVars == <<language_to, payload>>
clockVars == <<clockReads, timestamp, date>>
signVars == <<canonical_request, credential_scope, string_to_sign, secret_date,
              secret_service, secret_signing, signature, authorization>>
netVars == <<requests, request, body, res>>

Line(kind, text) == <<kind, text, JNull>>

\* return Err(msg) from main
ReturnErr(msg) == result' = "Err" /\ err' = msg /\ pc' = "done"

\* a panic unwinds main
Panic(msg) == result' = "Panic" /\ err' = msg /\ pc' = "done"

\* lines 74-79; args[0] of the code is args[1] here
Start ==
    /\ pc = "start"
    /\ IF Len(args) < 2
       THEN IF Len(args) = 0
            THEN Panic("index out of bounds") /\ out' = out
            ELSE /\ out' = Append(out, Line("usage", args[1]))
                 /\ ReturnErr("Invalid arguments")
       ELSE pc' = "read_id" /\ UNCHANGED <<result, err, out>>
    /\ UNCHANGED <<inputVars, envVars, classVars, clockVars, signVars, netVars>>

\* lines 80-86
ReadId ==
    /\ pc = "read_id"
    /\ envReads' = envReads + 1
    /\ IF envId[1] = "set"
       THEN /\ secret_id' = envId[2] /\ pc' = "read_key"
            /\ UNCHANGED <<result, err, out>>
       ELSE /\ out' = Append(out, Line("need_id", <<>>))
            /\ ReturnErr("Missing TENCENT_TRANSLATION_SECRET_ID")
            /\ secret_id' = secret_id
    /\ UNCHANGED <<inputVars, secret_key, classVars, clockVars, signVars, netVars>>

\* lines 87-93
ReadKey ==
    /\ pc = "read_key"
    /\ envReads' = envReads + 1
    /\ IF envKey[1] = "set"
       THEN /\ secret_key' = envKey[2] /\ pc' = "classify"
            /\ UNCHANGED <<result, err, out>>
       ELSE /\ out' = Append(out, Line("need_key", <<>>))
            /\ ReturnErr("Missing TENCENT_TRANSLATION_SECRET_KEY")
            /\ secret_key' = secret_key
    /\ UNCHANGED <<inputVars, secret_id, classVars, clockVars, signVars, netVars>>

\* lines 95-100
Classify ==
    /\ pc = "classify"
    /\ language_to' = choose_target(args[2])
    /\ pc' = "payload"
    /\ UNCHANGED <<inputVars, result, err, out, envVars, payload, clockVars, signVars, netVars>>

\* lines 102-114
BuildPayload ==
    /\ pc = "payload"
    /\ payload' = make_payload(args[2], language_to)
    /\ pc' = "clock"
    /\ UNCHANGED <<inputVars, result, err, out, envVars, language_to, clockVars, signVars, netVars>>

\* the date taken from a second reading of the clock
SetClockTwice(t) ==
    /\ timestamp' = t
    /\ \E t2 \in Timestamps : date' = format_date(t2)

\* lines 116-120 with the clock showing t
SetClock(t) ==
    /\ timestamp' = t
    /\ date' = format_date(t)

ReadClock ==
    /\ pc = "clock"
    /\ clockReads' = clockReads + 1
    /\ \E c \in ClockResults :
         IF c[1] = "ok"
         THEN SetClock(c[2]) /\ pc' = "canonical" /\ UNCHANGED <<result, err>>
         ELSE ReturnErr("SystemTimeError") /\ UNCHANGED <<timestamp, date>>
    /\ UNCHANGED <<inputVars, out, envVars, classVars, signVars, netVars>>

\* lines 127-132: format!("content-type:{}\nhost:{}\nx-tc-action:{}\n", ...)
canonical_headers ==
    <<99, 111, 110, 116, 101, 110, 116, 45, 116, 121, 112, 101, 58>> \o S_ct \o NL
    \o <<104, 111, 115, 116, 58>> \o S_host \o NL
    \o <<120, 45, 116, 99, 45, 97, 99, 116, 105, 111, 110, 58>> \o to_lowercase(S_action) \o NL

\* lines 134-145
make_canonical_request(p) ==
    S_POST \o NL \o S_slash \o NL \o S_empty \o NL \o canonical_headers \o NL
    \o S_signed_headers \o NL \o Hex(Sha256(to_string(p)))

\* line 148: format!("{}/{}/tc3_request", date, service)
make_credential_scope(d) == d \o <<47>> \o S_service \o <<47>> \o S_tc3_request

\* lines 149-157
make_string_to_sign(ts, scope, creq) ==
    S_algorithm \o NL \o Dec(ts) \o NL \o scope \o NL \o Hex(Sha256(creq))

\* line 160
make_secret_date(key, d) == sign(S_TC3 \o key, d)

\* line 161 with key and message exchanged
make_secret_service_swapped(sd) == sign(S_service, sd)

\* line 161
make_secret_service(sd) == sign(sd, S_service)

\* line 162
make_secret_signing(ss) == sign(ss, S_tc3_request)

\* lines 163-166
make_signature(signing, sts) == Hmac(signing, sts)

\* lines 169-176
make_authorization(id, scope, sig) ==
    S_algorithm \o <<32, 67, 114, 101, 100, 101, 110, 116, 105, 97, 108, 61>> \o id
    \o <<47>> \o scope
    \o <<44, 32, 83, 105, 103, 110, 101, 100, 72, 101, 97, 100, 101, 114, 115, 61>>
    \o S_signed_headers
    \o <<44, 32, 83, 105, 103, 110, 97, 116, 117, 114, 101, 61>> \o Hex(sig)

\* Step 1, lines 122-145
CanonicalRequest ==
    /\ pc = "canonical"
    /\ canonical_request' = make_canonical_request(payload)
    /\ pc' = "string_to_sign"
    /\ UNCHANGED <<inputVars, result, err, out, envVars, classVars, clockVars, netVars,
                   credential_scope, string_to_sign, secret_date, secret_service,
                   secret_signing, signature, authorization>>

\* Step 2, lines 147-157
StringToSign ==
    /\ pc = "string_to_sign"
    /\ credential_scope' = make_credential_scope(date)
    /\ string_to_sign' = make_string_to_sign(timestamp, credential_scope', canonical_request)
    /\ pc' = "signature"
    /\ UNCHANGED <<inputVars, result, err, out, envVars, classVars, clockVars, netVars,
                   canonical_request, secret_date, secret_service, secret_signing,
                   signature, authorization>>

\* Step 3, lines 159-166
CalculateSignature ==
    /\ pc = "signature"
    /\ secret_date' = make_secret_date(secret_key, date)
    /\ secret_service' = make_secret_service(secret_date')
    /\ secret_signing' = make_secret_signing(secret_service')
    /\ signature' = make_signature(secret_signing', string_to_sign)
    /\ pc' = "authorization"
    /\ UNCHANGED <<inputVars, result, err, out, envVars, classVars, clockVars, netVars,
                   canonical_request, credential_scope, string_to_sign, authorization>>

\* Step 4, lines 168-176
Authorization ==
    /\ pc = "authorization"
    /\ authorization' = make_authorization(secret_id, credential_scope, signature)
    /\ pc' = "headers"
    /\ UNCHANGED <<inputVars, result, err, out, envVars, classVars, clockVars, netVars,
                   canonical_request, credential_scope, string_to_sign, secret_date,
                   secret_service, secret_signing, signature>>

\* lines 194-201: the request builder; an invalid header value panics in unwrap
make_request(headers, p) == <<headers, to_string(p), S_endpoint>>

\* lines 179-201
BuildRequest ==
    /\ pc = "headers"
    /\ LET headers == make_headers(authorization, timestamp)
       IN  IF \A k \in DOMAIN headers : valid_header_value(headers[k])
           THEN /\ request' = make_request(headers, payload)
                /\ pc' = "send"
                /\ UNCHANGED <<result, err>>
           ELSE Panic("InvalidHeaderValue") /\ request' = request
    /\ UNCHANGED <<inputVars, out, envVars, classVars, clockVars, signVars,
                   requests, body, res>>

\* a failed send() that is tried again
SendRetried == pc' = "send" /\ UNCHANGED <<result, err>>

\* line 202: send() failed, and ? returns the error
SendFailed == ReturnErr("reqwest::Error: send")

\* line 202: one blocking HTTPS POST
Send ==
    /\ pc = "send"
    /\ requests' = requests + 1
    /\ \/ SendFailed
       \/ pc' = "json" /\ UNCHANGED <<result, err>>
    /\ UNCHANGED <<inputVars, out, envVars, classVars, clockVars, signVars,
                   request, body, res>>

\* line 204: the body is read and parsed
ReadJson ==
    /\ pc = "json"
    /\ \E b \in Bodies :
         /\ body' = b
         /\ IF b[1] = "json"
            THEN res' = b[2] /\ pc' = "present" /\ UNCHANGED <<result, err>>
            ELSE ReturnErr("reqwest::Error: decode") /\ res' = res
    /\ UNCHANGED <<inputVars, out, envVars, classVars, clockVars, signVars,
                   requests, request>>

\* lines 206-212
html_fragment(original, text) ==
    <<Line("css", <<>>), Line("originalText", original), Line("br_br", <<>>),
      Line("frame_open", <<>>), Line("definition", text), Line("frame_close", <<>>),
      Line("br", <<>>)>>

\* the value looked up in line 205
target_text(r) == as_str(Index(Index(r, "Response"), "TargetText"))

\* lines 205-217
Present ==
    /\ pc = "present"
    /\ LET text == target_text(res)
       IN  IF text[1]
           THEN out' = out \o html_fragment(args[2], text[2])
           ELSE out' = Append(out, <<"api_error", <<>>, res>>)
    /\ result' = "Ok" /\ pc' = "done" /\ err' = err
    /\ UNCHANGED <<inputVars, envVars, classVars, clockVars, signVars, netVars>>

\* the process ends, by returning from main or by being killed: nothing of it
\* remains but, for comparison with the next invocation, what it signed
Exit ==
    /\ pc # "exited"
    /\ prev' = IF authorization # <<>>
               THEN << <<args[2], timestamp, secret_id, secret_key>>,
                       <<canonical_request, string_to_sign, Hex(signature), authorization>> >>
               ELSE prev
    /\ args' = <<>> /\ envId' = Unset /\ envKey' = Unset
    /\ pc' = "exited" /\ result' = "none" /\ err' = "" /\ out' = <<>>
    /\ envReads' = 0 /\ secret_id' = <<>> /\ secret_key' = <<>>
    /\ language_to' = "" /\ payload' = <<>>
    /\ clockReads' = 0 /\ timestamp' = 0 /\ date' = <<>>
    /\ canonical_request' = <<>> /\ credential_scope' = <<>> /\ string_to_sign' = <<>>
    /\ secret_date' = <<>> /\ secret_service' = <<>> /\ secret_signing' = <<>>
    /\ signature' = <<>> /\ authorization' = <<>>
    /\ requests' = 0 /\ request' = <<>> /\ body' = <<>> /\ res' = JNull

\* the tool is invoked again, with any arguments and environment
Invoke ==
    /\ pc = "exited"
    /\ args' \in Argvs(Texts) /\ envId' \in EnvIds /\ envKey' \in EnvKeys
    /\ pc' = "start"
    /\ UNCHANGED <<prev, result, err, out, envVars, classVars, clockVars, signVars, netVars>>

Next ==
    \/ Start \/ ReadId \/ ReadKey \/ Classify \/ BuildPayload \/ ReadClock
    \/ CanonicalRequest \/ StringToSign \/ CalculateSignature \/ Authorization
    \/ BuildRequest \/ Send \/ ReadJson \/ Present

Spec == Init /\ [][Next]_vars

\* the stages up to the choice of the target language, over the wide alphabet
NextClassify == Start \/ ReadId \/ ReadKey \/ Classify

SpecClassify == InitClassify /\ [][NextClassify]_vars

\* successive invocations, each followed up to the end of signing
NextRuns ==
    \/ Start \/ ReadId \/ ReadKey \/ Classify \/ BuildPayload \/ ReadClock
    \/ CanonicalRequest \/ StringToSign \/ CalculateSignature \/ Authorization
    \/ Exit \/ Invoke

SpecRuns == Init /\ [][NextRuns]_vars

-----------------------------------------------------------------------------
(* Vocabulary of the properties *)

IsPrefix(p, s) == Len(p) <= Len(s) /\ SubSeq(s, 1, Len(p)) = p
IsSuffix(p, s) == Len(p) <= Len(s) /\ SubSeq(s, Len(s) - Len(p) + 1, Len(s)) = p

HtmlKinds == {"css", "originalText", "br_br", "frame_open", "definition", "frame_close", "br"}
PrintedHtml == \E i \in 1..Len(out) : out[i][1] \in HtmlKinds

Missing(v) == v[1] # "set"

\* the CJK ranges as the specification lists them
InCjkRanges(ch) ==
    \/ ch \in 19968..40959 \/ ch \in 13312..19903 \/ ch \in 131072..173791
    \/ ch \in 173824..177983 \/ ch \in 177984..178207 \/ ch \in 178208..183983
    \/ ch \in 63744..64255 \/ ch \in 194560..195103

CjkCount(text) == Cardinality({i \in 1..Len(text) : InCjkRanges(text[i])})
AsciiCount(text) == Cardinality({i \in 1..Len(text) : text[i] \in 0..127})

\* Response.TargetText is present and is a string
HasTargetText(v) ==
    /\ v[1] = "obj"
    /\ \E i \in 1..Len(v[3]) :
         /\ v[3][i][1] = "Response"
         /\ v[3][i][2][1] = "obj"
         /\ \E j \in 1..Len(v[3][i][2][3]) :
              /\ v[3][i][2][3][j][1] = "TargetText"
              /\ v[3][i][2][3][j][2][1] = "str"

\* the UTC dates of the clock readings of the model, from the calendar
UtcDate(t) ==
    CASE t = 86399 -> <<49, 57, 55, 48, 45, 48, 49, 45, 48, 49>>       \* 1970-01-01
      [] t = 86400 -> <<49, 57, 55, 48, 45, 48, 49, 45, 48, 50>>       \* 1970-01-02
      [] t = 951782400 -> <<50, 48, 48, 48, 45, 48, 50, 45, 50, 57>>   \* 2000-02-29

-----------------------------------------------------------------------------
(* Properties *)

\* C1: in a run where the secret id or the secret key is not set, main ends with
\* an error result, never gets past reading the credentials, and issues no request.
MissingCredentialFails ==
    (Missing(envId) \/ Missing(envKey)) =>
        /\ requests = 0 /\ request = <<>>
        /\ pc \in {"start", "read_id", "read_key", "done"}
        /\ (pc = "done" => result = "Err")

\* C2: a run started with fewer than 2 arguments prints the usage message and
\* returns an error, reads no credential, issues no request, prints no HTML.
UsageOnFewArguments ==
    (Len(args) < 2 /\ pc = "done") =>
        /\ result = "Err"
        /\ Len(out) = 1 /\ out[1][1] = "usage"
        /\ envReads = 0 /\ requests = 0 /\ ~PrintedHtml

\* C3: when the parsed response has no string at Response.TargetText, the run
\* prints the diagnostic line with the raw response, prints no HTML, and main
\* ends with Ok.
MissingTargetTextIsSoft ==
    (pc = "done" /\ body # <<>> /\ body[1] = "json" /\ ~HasTargetText(body[2])) =>
        /\ result = "Ok"
        /\ out = << <<"api_error", <<>>, body[2]>> >>
        /\ ~PrintedHtml

MissingTargetTextWitness ==
    /\ pc = "done" /\ result = "Ok" /\ body # <<>> /\ body[1] = "json"
    /\ ~HasTargetText(body[2])
    /\ Index(body[2], "Response")[1] = "obj"
    /\ Len(out) = 1 /\ out[1][1] = "api_error"

\* C4: the target is "en" exactly when the text has strictly more characters in
\* the CJK ranges than ASCII characters, and "zh" otherwise (so also on a tie).
TargetByMajority ==
    language_to # "" =>
        /\ language_to \in {"en", "zh"}
        /\ language_to = "en" <=> CjkCount(args[2]) > AsciiCount(args[2])

TieWitness ==
    /\ language_to = "zh"
    /\ CjkCount(args[2]) = AsciiCount(args[2]) /\ AsciiCount(args[2]) > 0

\* C5 as stated: every text made only of characters of the CJK ranges gets "en".
PureCjkGetsEn ==
    (language_to # "" /\ \A i \in 1..Len(args[2]) : InCjkRanges(args[2][i])) =>
        language_to = "en"

\* C5 amended: every non-empty text made only of characters of the CJK ranges
\* gets "en".
NonEmptyPureCjkGetsEn ==
    (language_to # "" /\ args[2] # <<>> /\ \A i \in 1..Len(args[2]) : InCjkRanges(args[2][i])) =>
        language_to = "en"

PureCjkWitness ==
    /\ language_to = "en" /\ Len(args[2]) >= 2
    /\ \A i \in 1..Len(args[2]) : InCjkRanges(args[2][i])
    /\ args[2][1] # args[2][2]

\* C6: a network error, an unparseable body and a header value that cannot be
\* built each end main with an error result: no panic, no HTML.
TransportFailuresPropagate ==
    (/\ pc = "done"
     /\ \/ requests = 1 /\ body = <<>>                          \* the request failed
        \/ body # <<>> /\ body[1] = "garbage"                   \* no JSON in the body
        \/ authorization # <<>> /\ ~valid_header_value(authorization))
    => result = "Err" /\ ~PrintedHtml

\* C7: at most one POST is issued, and once it is issued the run only parses,
\* prints or ends.
AtMostOnePost ==
    /\ requests <= 1
    /\ requests = 1 => pc \in {"json", "present", "done"}

FailedPostNotRetried ==
    pc = "done" /\ requests = 1 /\ result = "Err" /\ body = <<>>

\* C8: two invocations with the same text, timestamp, secret id and secret key
\* produce the same canonical request, string-to-sign, signature and
\* Authorization value.
SigningDeterministic ==
    (/\ prev # <<>> /\ authorization # <<>>
     /\ prev[1] = <<args[2], timestamp, secret_id, secret_key>>)
    => prev[2] = <<canonical_request, string_to_sign, Hex(signature), authorization>>

SameInputsTwice ==
    /\ prev # <<>> /\ authorization # <<>>
    /\ prev[1] = <<args[2], timestamp, secret_id, secret_key>>

\* C9: the signature is hex(HMAC(k3, string_to_sign)) with
\* k1 = HMAC("TC3" + secret_key, date), k2 = HMAC(k1, "tmt"),
\* k3 = HMAC(k2, "tc3_request"), and the date of k1 is the one that starts the
\* credential scope.
SignatureChain ==
    authorization # <<>> =>
        LET k1 == Hmac(<<84, 67, 51>> \o secret_key, date)
            k2 == Hmac(k1, <<116, 109, 116>>)
            k3 == Hmac(k2, <<116, 99, 51, 95, 114, 101, 113, 117, 101, 115, 116>>)
        IN  /\ Hex(signature) = Hex(Hmac(k3, string_to_sign))
            /\ IsSuffix(Hex(Hmac(k3, string_to_sign)), authorization)
            /\ Len(date) = 10
            /\ IsPrefix(date \o <<47>>, credential_scope)

SignedWitness ==
    authorization # <<>> /\ secret_key = <<107, 50>> /\ timestamp = 951782400

\* C10: a request that is sent carries what was signed: one clock reading, the
\* same timestamp in X-TC-Timestamp and in the string-to-sign, the UTC date of
\* that timestamp in the credential scope, the body whose hash ends the
\* canonical request (its Target the classifier's choice), and the Content-Type
\* and Host values of the canonical header block.
SentIsSigned ==
    requests >= 1 =>
        LET headers == request[1]
            sent == request[2]
            target == IF CjkCount(args[2]) > AsciiCount(args[2]) THEN S_en ELSE S_zh
        IN  /\ clockReads = 1
            /\ headers["X-TC-Timestamp"] = Dec(timestamp)
            /\ IsPrefix(S_algorithm \o NL \o headers["X-TC-Timestamp"] \o NL
                        \o UtcDate(timestamp) \o <<47>>, string_to_sign)
            /\ IsPrefix(UtcDate(timestamp) \o <<47>>, credential_scope)
            /\ sent = to_string(payload)
            /\ payload[1] = args[2] /\ payload[3] = target
            /\ IsSuffix(NL \o Hex(Sha256(sent)), canonical_request)
            /\ IsPrefix(S_POST \o NL \o <<47>> \o NL \o NL
                        \o <<99, 111, 110, 116, 101, 110, 116, 45, 116, 121, 112, 101, 58>>
                        \o headers["Content-Type"] \o NL
                        \o <<104, 111, 115, 116, 58>> \o headers["Host"] \o NL,
                        canonical_request)

SentWitness ==
    requests = 1 /\ payload[3] = S_en /\ timestamp = 86400

====
